---- MODULE Spec2Model ----
(***************************************************************************)
(* Model of src/zoom.js: the 2D affine algebra, the Transform entity with  *)
(* its css() rendering, the similarity solver zoom(), and the Zoom gesture *)
(* engine (touchstart / touchmove / touchend listeners, tap timer, reset   *)
(* animation).                                                             *)
(*                                                                         *)
(* Numbers.  JavaScript numbers are modelled as exact rationals <<n, d>>   *)
(* (d > 0, lowest terms) extended with the three non-finite values the     *)
(* code can produce: NaN = <<0,0>>, +Infinity = <<1,0>>, -Infinity =       *)
(* <<-1,0>>.  Arithmetic and comparisons follow IEEE-754 on those values   *)
(* (0/0 = NaN, x/0 = +-Infinity, Infinity*0 = NaN, every comparison with   *)
(* NaN is false).  Math.sqrt is exact on perfect squares and rounded down  *)
(* to a multiple of 1/SqrtDen otherwise.  Rounding of the other operations *)
(* is not modelled.                                                        *)
(*                                                                         *)
(* JS indices are 0-based, TLA+ tuples 1-based: A[0][0] is A[1][1] here.   *)
(***************************************************************************)
EXTENDS Integers, Sequences, FiniteSets, TLC

(***************************************************************************)
(* Bounds of the model.                                                    *)
(***************************************************************************)
\* The model always follows one touch-move that changes the transform, one
\* running reset animation and one pending tap timeout (two where no animation
\* can run); MaxExtra times in a behaviour it follows one more of them.
MaxExtra == 0
\* Math.sqrt of a non-square is rounded down to a multiple of 1/SqrtDen
SqrtDen == 4
\* largest page coordinate of a contact given to the solver and to a gesture
MaxCoord == 2

(***************************************************************************)
(* Numbers                                                                 *)
(***************************************************************************)
AbsI(i) == IF i < 0 THEN -i ELSE i

SgnI(i) == IF i < 0 THEN -1 ELSE IF i = 0 THEN 0 ELSE 1

RECURSIVE Gcd(_, _)
Gcd(a, b) == IF b = 0 THEN a ELSE Gcd(b, a % b)

\* the rational n/d (d > 0) in lowest terms
Q(n, d) == LET g == Gcd(AbsI(n), d) IN <<n \div g, d \div g>>

N(i) == <<i, 1>>

NaN == <<0, 0>>

PosInf == <<1, 0>>

NegInf == <<-1, 0>>

Zero == N(0)

One == N(1)

IsNaN(x) == x = NaN

IsFinite(x) == x[2] # 0

Inf(sign) == IF sign < 0 THEN NegInf ELSE PosInf

\* x + y
Add(x, y) ==
    IF IsNaN(x) \/ IsNaN(y) THEN NaN
    ELSE IF IsFinite(x) /\ IsFinite(y) THEN Q(x[1] * y[2] + y[1] * x[2], x[2] * y[2])
    ELSE IF ~IsFinite(x) /\ ~IsFinite(y) THEN (IF x = y THEN x ELSE NaN)
    ELSE IF IsFinite(x) THEN y ELSE x

Neg(x) == <<-x[1], x[2]>>

\* x - y
Sub(x, y) == Add(x, Neg(y))

\* x * y
Mul(x, y) ==
    IF IsNaN(x) \/ IsNaN(y) THEN NaN
    ELSE IF IsFinite(x) /\ IsFinite(y) THEN Q(x[1] * y[1], x[2] * y[2])
    ELSE IF x[1] = 0 \/ y[1] = 0 THEN NaN
    ELSE Inf(SgnI(x[1]) * SgnI(y[1]))

\* x / y; a zero divisor is +0 (every divisor in the code is a sum of
\* squares, a square root, or the literal 100)
Div(x, y) ==
    IF IsNaN(x) \/ IsNaN(y) THEN NaN
    ELSE IF ~IsFinite(y) THEN (IF IsFinite(x) THEN Zero ELSE NaN)
    ELSE IF y[1] = 0 THEN (IF x[1] = 0 THEN NaN ELSE Inf(SgnI(x[1])))
    ELSE IF ~IsFinite(x) THEN Inf(SgnI(x[1]) * SgnI(y[1]))
    ELSE Q(x[1] * y[2] * SgnI(y[1]), x[2] * AbsI(y[1]))

\* x < y
Lt(x, y) ==
    IF IsNaN(x) \/ IsNaN(y) THEN FALSE
    ELSE IF ~IsFinite(x) /\ ~IsFinite(y) THEN x[1] < y[1]
    ELSE IF ~IsFinite(x) THEN x[1] < 0
    ELSE IF ~IsFinite(y) THEN y[1] > 0
    ELSE x[1] * y[2] < y[1] * x[2]

\* x > y
Gt(x, y) == Lt(y, x)

\* x <= y
Le(x, y) == ~IsNaN(x) /\ ~IsNaN(y) /\ ~Lt(y, x)

\* x >= y
Ge(x, y) == Le(y, x)

\* x == y
NumEq(x, y) == ~IsNaN(x) /\ ~IsNaN(y) /\ x = y

\* Math.abs
Abs(x) == <<AbsI(x[1]), x[2]>>

\* largest r in lo..hi with r*r <= k (lo*lo <= k)
RECURSIVE ISqrtIn(_, _, _)
ISqrtIn(k, lo, hi) ==
    IF lo >= hi THEN lo
    ELSE LET mid == (lo + hi + 1) \div 2
         IN  IF mid * mid <= k THEN ISqrtIn(k, mid, hi) ELSE ISqrtIn(k, lo, mid - 1)

ISqrt(k) == ISqrtIn(k, 0, k)

\* Math.sqrt
Sqrt(x) ==
    IF IsNaN(x) \/ x[1] < 0 THEN NaN
    ELSE IF ~IsFinite(x) THEN PosInf
    ELSE LET rn == ISqrt(x[1])
             rd == ISqrt(x[2])
         IN  IF rn * rn = x[1] /\ rd * rd = x[2] THEN Q(rn, rd)
             ELSE Q(ISqrt((x[1] * SqrtDen * SqrtDen) \div x[2]), SqrtDen)

(***************************************************************************)
(* Affine algebra (zoom.js lines 12-80)                                    *)
(***************************************************************************)
scmult(l, x) == <<Mul(l, x[1]), Mul(l, x[2])>>

vcadd(a, b) == <<Add(a[1], b[1]), Add(a[2], b[2])>>

minus(a, b) == <<Sub(a[1], b[1]), Sub(a[2], b[2])>>

dot(a, b) == Add(Mul(a[1], b[1]), Mul(a[2], b[2]))

wedge(a, b) == Sub(Mul(a[1], b[2]), Mul(a[2], b[1]))

apply(A, x) == vcadd(scmult(x[1], A[1]), scmult(x[2], A[2]))

mult(A, B) == <<apply(A, B[1]), apply(A, B[2])>>

(***************************************************************************)
(* Transform (zoom.js lines 90-157, 253-257).  elem is TRUE when the       *)
(* transform was constructed with the surface element, FALSE when the      *)
(* third constructor argument was omitted.                                 *)
(***************************************************************************)
Transform(A, b, elem) == [A |-> A, b |-> b, elem |-> elem]

identity == Transform(<<<<One, Zero>>, <<Zero, One>>>>, <<Zero, Zero>>, FALSE)

cascade(T, U, elem) == Transform(mult(T.A, U.A), vcadd(apply(T.A, U.b), T.b), elem)

\* T(x) = apply(T.A, x) + T.b
Image(T, x) == vcadd(apply(T.A, x), T.b)

(***************************************************************************)
(* The surface element.  geom holds the layout values css() and the        *)
(* coordinate helpers read: offsetLeft, offsetTop, clientWidth,            *)
(* scrollHeight and screen.height.  The values are the environment's.      *)
(***************************************************************************)
Geoms ==
    { [offsetLeft |-> 1, offsetTop |-> 1, clientWidth |-> 4, scrollHeight |-> 6, screenHeight |-> 4] }

\* values elem.scrollTop takes when the user scrolls the native surface
ScrollTops == {0, 2}

(***************************************************************************)
(* Transform.prototype.css (lines 100-138).  The method writes the floored *)
(* diagonal and the clamped translation into this.A and this.b, so the     *)
(* operator returns both the receiver after the call (self) and the value  *)
(* returned (ret): kind "undefined" when the transform has no elem,        *)
(* "false" for scroll mode, "matrix" with the six numbers otherwise.       *)
(* e is [scrollTop |-> elem.scrollTop, data |-> parseInt(elem.dataset      *)
(* .scrollTop), g |-> geometry].                                           *)
(***************************************************************************)
NoMatrix == <<>>

css(T, e) ==
    LET a00 == IF Lt(T.A[1][1], One) THEN One ELSE T.A[1][1]
        a11 == IF Lt(T.A[2][2], One) THEN One ELSE T.A[2][2]
        A   == <<<<a00, T.A[1][2]>>, <<T.A[2][1], a11>>>>
    IN  IF ~T.elem
        THEN [self |-> Transform(A, T.b, T.elem), ret |-> [kind |-> "undefined", m |-> NoMatrix]]
        ELSE
        LET st  == IF e.scrollTop > 0 THEN N(e.scrollTop) ELSE e.data
            sta == Mul(st, a00)
            dy  == IF e.g.screenHeight <= e.g.scrollHeight
                   THEN Sub(Sub(Mul(N(e.g.scrollHeight), a00), N(e.g.screenHeight)), sta)
                   ELSE Abs(Sub(N(e.g.screenHeight), Mul(N(e.g.scrollHeight), a00)))
            dx  == Sub(Mul(N(e.g.clientWidth), a00), N(e.g.clientWidth))
            y1  == IF Gt(T.b[2], sta) THEN sta ELSE T.b[2]
            y2  == IF Lt(y1, Neg(dy)) THEN Neg(dy) ELSE y1
            x1  == IF Gt(T.b[1], Zero) THEN Zero ELSE T.b[1]
            x2  == IF Lt(x1, Neg(dx)) THEN Neg(dx) ELSE x1
            self == Transform(A, <<x2, y2>>, T.elem)
            bb  == Sub(y2, sta)
        IN  IF NumEq(a00, One) /\ NumEq(a11, One)
            THEN [self |-> self, ret |-> [kind |-> "false", m |-> NoMatrix]]
            ELSE [self |-> self,
                  ret |-> [kind |-> "matrix", m |-> <<a00, A[1][2], A[2][1], a11, x2, bb>>]]

(***************************************************************************)
(* Similarity solver (lines 166-217)                                       *)
(***************************************************************************)
rotate(c, s) == <<<<c, s>>, <<Neg(s), c>>>>

rotscale_dotForWedge(a, b) ==
    LET alen == dot(a, a)
        sig  == dot(a, b)
        del  == dot(a, b)
    IN  rotate(Div(sig, alen), Div(del, alen))

rotscale(a, b) ==
    LET alen == dot(a, a)
        sig  == dot(a, b)
        del  == wedge(a, b)
    IN  rotate(Div(sig, alen), Div(del, alen))

justscale(a, b) ==
    LET alen == Sqrt(dot(a, a))
        blen == Sqrt(dot(b, b))
        scale == Div(blen, alen)
    IN  rotate(scale, Zero)

zoom(s, d, rot, elem) ==
    LET a   == minus(s[2], s[1])
        b   == minus(d[2], d[1])
        rs  == IF rot THEN rotscale(a, b) ELSE justscale(a, b)
        rs0 == apply(rs, s[1])
        t   == minus(d[1], rs0)
    IN  Transform(rs, t, elem)

(***************************************************************************)
(* Interpolation (lines 227-255)                                           *)
(***************************************************************************)
avgVector(u, v, progress) ==
    LET u1 == scmult(Sub(One, progress), u)
        v1 == scmult(progress, v)
    IN  vcadd(u1, v1)

avgMatrix(A, B, progress) == <<avgVector(A[1], B[1], progress), avgVector(A[2], B[2], progress)>>

avg(Z, I, progress) == Transform(avgMatrix(Z.A, I.A, progress), avgVector(Z.b, I.b, progress), FALSE)

(***************************************************************************)
(* The gesture engine: state of a Zoom object, of its element, and of the  *)
(* timer and frame facilities of wnd.                                      *)
(***************************************************************************)
VARIABLES
    zooming,        \* me.zooming
    inZoom,         \* me.inZoom
    tapped,         \* closure variable tapped of the constructor
    activeZoom,     \* me.activeZoom
    resultantZoom,  \* me.resultantZoom
    srcCoords,      \* me.srcCoords
    config,         \* me.config: [pan, rotate]
    hasRAF,         \* wnd.requestAnimationFrame is present
    timers,         \* time left, in ms, of the pending setTimeout callbacks, oldest first
    rafQueue,       \* pending requestAnimationFrame callbacks: the closures of step
    now,            \* the frame clock: the timestamp an animation frame gets, in ms
    lastFrame,      \* timestamp of the last animation frame run, -1 when none is pending
    elemScrollTop,  \* elem.scrollTop
    dataScrollTop,  \* parseInt(elem.dataset.scrollTop)
    geom,           \* layout of the element and the screen
    styleTransform, \* elem.style.transform
    styleOverflow,  \* elem.style.overflow
    nMoves,         \* number of touch-moves that changed the transform so far
    extra,          \* how often the model went beyond what it always follows
    evt,            \* what the handler of the last step did to its event
    solveIn,        \* input of a function run on its own
    solveOut        \* output of a function run on its own

vars == <<zooming, inZoom, tapped, activeZoom, resultantZoom, srcCoords, config, hasRAF,
          timers, rafQueue, now, lastFrame, elemScrollTop, dataScrollTop, geom,
          styleTransform, styleOverflow, nMoves, extra, evt, solveIn, solveOut>>

\* the configurations explored: the default one (lines 305-308) and its opposite
Configs == {[pan |-> FALSE, rotate |-> TRUE], [pan |-> TRUE, rotate |-> FALSE]}

\* setTimeout delay of the tap window, line 361
TapTimeout == 300

\* duration of the reset animation, line 456
ResetDuration == 100

\* var startTime = null, line 448
NullTime == -1

\* The clock of the model.  Time passes in steps of half the tap timeout; while
\* frame callbacks are pending an animation frame runs every three quarters of
\* the reset duration; a reset animation is started while the frame clock is at
\* most MaxTime.
TickMs == TapTimeout \div 2
FrameMs == (3 * ResetDuration) \div 4
MaxTime == 2 * FrameMs

(***************************************************************************)
(* Touch batches: evt.touches is absent, or a list of 1 to 3 contacts with *)
(* integer page coordinates.                                               *)
(***************************************************************************)
NoTouches == [present |-> FALSE, list |-> <<>>]

Touches(l) == [present |-> TRUE, list |-> l]

Batches ==
    { NoTouches,
      Touches(<< <<1, 1>> >>),
      Touches(<< <<1, 1>>, <<2, 1>> >>),
      Touches(<< <<1, 1>>, <<1, 1>> >>),
      Touches(<< <<1, 1>>, <<3, 1>>, <<2, 1>> >>) }

\* lines 314-321
getCoordsDouble(t) ==
    LET oX == geom.offsetLeft
        oY == geom.offsetTop
    IN  << <<N(t[1][1] - oX), N(t[1][2] - oY)>>,
           <<N(t[2][1] - oX), N(t[2][2] - oY)>> >>

getCoordsSingle_pageCoords(t) ==
    LET x  == t[1][1]
        y  == t[1][2]
    IN  << <<N(x), N(y)>>, <<N(x + 1), N(y + 1)>> >>

\* lines 323-332
getCoordsSingle(t) ==
    LET oX == geom.offsetLeft
        oY == geom.offsetTop
        x  == t[1][1] - oX
        y  == t[1][2] - oY
    IN  << <<N(x), N(y)>>, <<N(x + 1), N(y + 1)>> >>

\* lines 334-336
getCoords(t) == IF Len(t) > 1 THEN getCoordsDouble(t) ELSE getCoordsSingle(t)

(***************************************************************************)
(* The methods of Zoom.prototype work on the part of the state they share: *)
(* a record me of the fields they read and write.                          *)
(***************************************************************************)
Me ==
    [activeZoom |-> activeZoom, resultantZoom |-> resultantZoom, inZoom |-> inZoom,
     elemScrollTop |-> elemScrollTop, dataScrollTop |-> dataScrollTop,
     styleTransform |-> styleTransform, styleOverflow |-> styleOverflow,
     rafQueue |-> rafQueue]

CssEnv(me) == [scrollTop |-> me.elemScrollTop, data |-> me.dataScrollTop, g |-> geom]

\* what elem.style.transform holds
StyleNone == [kind |-> "none", m |-> NoMatrix]

(***************************************************************************)
(* Zoom.prototype.repaint (lines 429-443).  css() runs on the object held  *)
(* in resultantZoom and writes into it; alias says that activeZoom holds   *)
(* the same object (setZoom), so that it sees the writes too.  Once the    *)
(* element's overflow is "visible" it is no scroll container and its       *)
(* scrollTop reads 0.                                                      *)
(***************************************************************************)
repaint(me, alias) ==
    LET c1 == css(me.resultantZoom, CssEnv(me))
    IN  IF c1.ret.kind = "matrix"
        THEN LET data == IF me.elemScrollTop > 0 THEN N(me.elemScrollTop) ELSE me.dataScrollTop
                 c2   == css(c1.self, [scrollTop |-> me.elemScrollTop, data |-> data, g |-> geom])
             IN  [me EXCEPT !.resultantZoom = c2.self,
                            !.activeZoom = IF alias THEN c2.self ELSE @,
                            !.dataScrollTop = data,
                            !.inZoom = TRUE,
                            !.styleTransform = c2.ret,
                            !.styleOverflow = "visible",
                            !.elemScrollTop = 0]
        ELSE [me EXCEPT !.resultantZoom = c1.self,
                        !.activeZoom = IF alias THEN c1.self ELSE @,
                        !.inZoom = FALSE,
                        !.styleOverflow = "scroll",
                        !.styleTransform = StyleNone]

\* Zoom.prototype.previewZoom (lines 414-417)
previewZoom(me, additionalZoom) ==
    repaint([me EXCEPT !.resultantZoom = cascade(additionalZoom, me.activeZoom, TRUE)], FALSE)

finalize_skipped(me) == me

\* Zoom.prototype.finalize (lines 425-427)
finalize(me) == [me EXCEPT !.activeZoom = me.resultantZoom]

setZoom_noFinalize(me, newZoom) ==
    repaint([me EXCEPT !.resultantZoom = newZoom], FALSE)

\* Zoom.prototype.setZoom (lines 419-423)
setZoom(me, newZoom) == repaint(finalize([me EXCEPT !.resultantZoom = newZoom]), TRUE)

(***************************************************************************)
(* Zoom.prototype.reset (lines 445-468).  A frame callback is the closure  *)
(* of step: the transform Z captured by reset() and its startTime.         *)
(***************************************************************************)
reset_ignored(me) == me

reset(me) ==
    IF hasRAF
    THEN [me EXCEPT !.rafQueue = Append(@, [Z |-> me.activeZoom, startTime |-> NullTime, first |-> NullTime])]
    ELSE setZoom(me, identity)

\* !startTime: null and 0 are both falsy
Falsy(startTime) == startTime = NullTime \/ startTime = 0

\* the timestamp of the first frame the closure c ran at: not a variable of the
\* code, kept to state how long an animation has been running
FirstRun(c, time) == IF c.first = NullTime THEN time ELSE c.first

step_endsOnStart(me, c, time) ==
    LET startTime == IF Falsy(c.startTime) THEN time ELSE c.startTime
        progress  == Div(N(time - startTime), N(ResetDuration))
    IN  IF Ge(progress, One)
        THEN setZoom(me, c.Z)
        ELSE [setZoom(me, avg(c.Z, identity, progress))
                EXCEPT !.rafQueue = Append(@, [Z |-> c.Z, startTime |-> startTime,
                                        first |-> FirstRun(c, time)])]

\* step(time), lines 452-463, for the closure c; the closure is queued again
\* unless the animation is over
step(me, c, time) ==
    LET startTime == IF Falsy(c.startTime) THEN time ELSE c.startTime
        progress  == Div(N(time - startTime), N(ResetDuration))
    IN  IF Ge(progress, One)
        THEN setZoom(me, identity)
        ELSE [setZoom(me, avg(c.Z, identity, progress))
                EXCEPT !.rafQueue = Append(@, [Z |-> c.Z, startTime |-> startTime,
                                        first |-> FirstRun(c, time)])]

\* one animation frame: the callbacks pending at its start run in order
RECURSIVE runFrame(_, _, _)
runFrame(me, pending, time) ==
    IF pending = <<>> THEN me
    ELSE runFrame(step(me, Head(pending), time), Tail(pending), time)

(***************************************************************************)
(* Construction (lines 293-312).  srcCoords starts as [0, 0], which is no  *)
(* point pair: its components read as undefined and every difference or    *)
(* product computed from them is NaN.                                      *)
(***************************************************************************)
NoPoint == <<NaN, NaN>>

NoEvent == [prevented |-> FALSE, reset |-> FALSE, tap |-> FALSE]

NoSolve == <<>>

Init ==
    /\ zooming = FALSE
    /\ activeZoom = identity
    /\ resultantZoom = identity
    /\ srcCoords = <<NoPoint, NoPoint>>
    /\ inZoom = FALSE
    /\ tapped = FALSE
    /\ config \in Configs
    /\ hasRAF \in BOOLEAN
    /\ hasRAF => ~config.pan
    /\ timers = <<>>
    /\ rafQueue = <<>>
    /\ now = FrameMs
    /\ lastFrame = -1
    /\ elemScrollTop = 0
    /\ dataScrollTop = NaN
    /\ geom \in Geoms
    /\ styleTransform = [kind |-> "unset", m |-> NoMatrix]
    /\ styleOverflow = "unset"
    /\ nMoves = 0
    /\ extra = 0
    /\ evt = NoEvent
    /\ solveIn = NoSolve
    /\ solveOut = NoSolve

\* write the fields of me back
Commit(me) ==
    /\ activeZoom' = me.activeZoom
    /\ resultantZoom' = me.resultantZoom
    /\ inZoom' = me.inZoom
    /\ elemScrollTop' = me.elemScrollTop
    /\ dataScrollTop' = me.dataScrollTop
    /\ styleTransform' = me.styleTransform
    /\ styleOverflow' = me.styleOverflow
    /\ rafQueue' = me.rafQueue

\* the model goes beyond what it always follows, if that is needed, at most
\* MaxExtra times
Grant(needed) ==
    IF needed THEN extra < MaxExtra /\ extra' = extra + 1 ELSE extra' = extra

\* a touch-move may change the transform
CanMove == Grant(nMoves >= 1)

\* a tap timeout may start
MustGrantTap == Len(timers) >= (IF hasRAF THEN 1 ELSE 2)

\* a reset animation may start
MustGrantAnimation == Len(rafQueue) >= 1

\* an input event is handled; evt records whether its handler called
\* evt.preventDefault(), whether reset() was called, and whether the event
\* was a touch-start with exactly one contact
Input(prevented, didReset, tap) ==
    evt' = [prevented |-> prevented, reset |-> didReset, tap |-> tap]

fixed == <<config, hasRAF, geom, solveIn, solveOut>>

\* left alone by every step but a touch-move that changes the transform
rest == <<nMoves, extra, fixed>>

(***************************************************************************)
(* touchstart listener (lines 338-379)                                     *)
(***************************************************************************)
TouchStart(t) ==
    LET n == Len(t.list)
    IN  IF (~inZoom /\ ~zooming /\ (~t.present \/ n # 2)) \/ ~t.present
        THEN /\ Input(FALSE, FALSE, n = 1)
             /\ UNCHANGED <<zooming, inZoom, tapped, activeZoom, resultantZoom, srcCoords,
                            timers, rafQueue, now, lastFrame, elemScrollTop, dataScrollTop,
                            styleTransform, styleOverflow, rest>>
        ELSE
        LET firstTap == n = 1 /\ ~tapped
            do_reset == n = 1 /\ tapped
            zooming1 == IF n = 2 \/ (firstTap /\ config.pan) THEN TRUE ELSE zooming
            tapped1  == IF n = 1 THEN ~tapped ELSE tapped
        IN  /\ (do_reset /\ hasRAF) => now <= MaxTime
            /\ Grant((firstTap /\ MustGrantTap) \/ (do_reset /\ hasRAF /\ MustGrantAnimation))
            /\ Input(zooming1 \/ tapped1 \/ do_reset, do_reset, n = 1)
            /\ zooming' = zooming1
            /\ tapped' = tapped1
            /\ timers' = IF firstTap THEN Append(timers, TapTimeout) ELSE timers
            /\ srcCoords' = IF zooming1 THEN getCoords(t.list) ELSE srcCoords
            /\ Commit(IF do_reset THEN reset(Me) ELSE Me)
            /\ UNCHANGED <<now, lastFrame, nMoves, fixed>>

(***************************************************************************)
(* touchmove listener (lines 381-399).  this in the listener is the parent *)
(* node, whose elem property is undefined: additionalZoom has no elem.     *)
(***************************************************************************)
TouchMove(t) ==
    IF (~inZoom /\ ~zooming) \/ ~t.present \/ ~zooming
    THEN /\ Input(FALSE, FALSE, FALSE)
         /\ UNCHANGED <<zooming, inZoom, tapped, activeZoom, resultantZoom, srcCoords,
                        timers, rafQueue, now, lastFrame, elemScrollTop, dataScrollTop,
                        styleTransform, styleOverflow, rest>>
    ELSE
    LET destCoords == getCoords(t.list)
        additionalZoom == zoom(srcCoords, destCoords, config.rotate, FALSE)
    IN  /\ CanMove
        /\ nMoves' = nMoves + 1
        /\ Input(TRUE, FALSE, FALSE)
        /\ Commit(previewZoom(Me, additionalZoom))
        /\ UNCHANGED <<zooming, tapped, srcCoords, timers, now, lastFrame, fixed>>

TouchEnd_keepsPreview ==
    IF (~inZoom /\ ~zooming) \/ ~zooming
    THEN /\ Input(FALSE, FALSE, FALSE)
         /\ UNCHANGED <<zooming, inZoom, tapped, activeZoom, resultantZoom, srcCoords,
                        timers, rafQueue, now, lastFrame, elemScrollTop, dataScrollTop,
                        styleTransform, styleOverflow, rest>>
    ELSE /\ Input(TRUE, FALSE, FALSE)
         /\ zooming' = FALSE
         /\ UNCHANGED <<inZoom, tapped, activeZoom, resultantZoom, srcCoords, timers,
                        rafQueue, now, lastFrame, elemScrollTop, dataScrollTop,
                        styleTransform, styleOverflow, rest>>

(***************************************************************************)
(* touchend listener (lines 401-411)                                       *)
(***************************************************************************)
TouchEnd ==
    IF (~inZoom /\ ~zooming) \/ ~zooming
    THEN /\ Input(FALSE, FALSE, FALSE)
         /\ UNCHANGED <<zooming, inZoom, tapped, activeZoom, resultantZoom, srcCoords,
                        timers, rafQueue, now, lastFrame, elemScrollTop, dataScrollTop,
                        styleTransform, styleOverflow, rest>>
    ELSE /\ Input(TRUE, FALSE, FALSE)
         /\ zooming' = FALSE
         /\ Commit(finalize(Me))
         /\ UNCHANGED <<tapped, srcCoords, timers, now, lastFrame, rest>>

\* the exported method reset, called by the application (line 469)
ResetCall ==
    /\ hasRAF => now <= MaxTime
    /\ Grant(hasRAF /\ MustGrantAnimation)
    /\ Input(FALSE, TRUE, FALSE)
    /\ Commit(reset(Me))
    /\ UNCHANGED <<zooming, tapped, srcCoords, timers, now, lastFrame, nMoves, fixed>>

(***************************************************************************)
(* The facilities of wnd and the user's scrolling.  These steps handle no  *)
(* input event: evt is cleared.  A timer runs its callback when its time   *)
(* is up.  now is the timestamp the next animation frame passes to its     *)
(* callbacks; a requested frame runs before more time passes, and the next *)
(* one FrameMs later.  The frame clock stands still while no frame         *)
(* callback is pending, and starts again from FrameMs for the next         *)
(* animation.                                                              *)
(***************************************************************************)
\* the timers after dt ms
RECURSIVE Elapse(_, _)
Elapse(ts, dt) == IF ts = <<>> THEN <<>> ELSE <<Head(ts) - dt>> \o Elapse(Tail(ts), dt)

TimerFire_keepsTapped ==
    /\ timers # <<>>
    /\ Head(timers) <= 0
    /\ timers' = Tail(timers)
    /\ evt' = NoEvent
    /\ UNCHANGED <<zooming, inZoom, tapped, activeZoom, resultantZoom, srcCoords, rafQueue,
                   now, lastFrame, elemScrollTop, dataScrollTop, styleTransform,
                   styleOverflow, rest>>

\* the setTimeout callback of lines 359-361
TimerFire ==
    /\ timers # <<>>
    /\ Head(timers) <= 0
    /\ timers' = Tail(timers)
    /\ tapped' = FALSE
    /\ evt' = NoEvent
    /\ UNCHANGED <<zooming, inZoom, activeZoom, resultantZoom, srcCoords, rafQueue, now,
                   lastFrame, elemScrollTop, dataScrollTop, styleTransform, styleOverflow,
                   rest>>

AnimationFrame_cancelled ==
    /\ rafQueue # <<>>
    /\ now > lastFrame
    /\ LET me == IF zooming
                 THEN [Me EXCEPT !.rafQueue = <<>>]
                 ELSE runFrame([Me EXCEPT !.rafQueue = <<>>], rafQueue, now)
       IN  /\ Commit(me)
           /\ lastFrame' = IF me.rafQueue = <<>> THEN -1 ELSE now
           /\ now' = IF me.rafQueue = <<>> THEN FrameMs ELSE now
    /\ evt' = NoEvent
    /\ UNCHANGED <<zooming, tapped, srcCoords, timers, rest>>

\* an animation frame with timestamp now runs the pending step callbacks
AnimationFrame ==
    /\ rafQueue # <<>>
    /\ now > lastFrame
    /\ LET me == runFrame([Me EXCEPT !.rafQueue = <<>>], rafQueue, now)
       IN  /\ Commit(me)
           /\ lastFrame' = IF me.rafQueue = <<>> THEN -1 ELSE now
           /\ now' = IF me.rafQueue = <<>> THEN FrameMs ELSE now
    /\ evt' = NoEvent
    /\ UNCHANGED <<zooming, tapped, srcCoords, timers, rest>>

\* time passes, at most until the next timer is due
Tick ==
    /\ timers # <<>> \/ rafQueue # <<>>
    /\ timers # <<>> => Head(timers) > 0
    /\ rafQueue # <<>> => lastFrame = now
    /\ LET step1 == IF rafQueue # <<>> THEN FrameMs ELSE TickMs
           dt == IF timers # <<>> /\ Head(timers) < step1 THEN Head(timers) ELSE step1
       IN  /\ timers' = Elapse(timers, dt)
           /\ now' = IF rafQueue # <<>> THEN now + dt ELSE now
    /\ evt' = NoEvent
    /\ UNCHANGED <<zooming, inZoom, tapped, activeZoom, resultantZoom, srcCoords,
                   rafQueue, lastFrame, elemScrollTop, dataScrollTop, styleTransform,
                   styleOverflow, rest>>

\* the user scrolls the surface before the engine first paints it (followed
\* where no animation can run)
Scroll ==
    /\ ~hasRAF
    /\ styleOverflow = "unset"
    /\ \E v \in ScrollTops \ {elemScrollTop} : elemScrollTop' = v
    /\ evt' = NoEvent
    /\ UNCHANGED <<zooming, inZoom, tapped, activeZoom, resultantZoom, srcCoords, timers,
                   rafQueue, now, lastFrame, dataScrollTop, styleTransform, styleOverflow,
                   rest>>

Next ==
    \/ \E t \in Batches : TouchStart(t)
    \/ \E t \in Batches : TouchMove(t)
    \/ TouchEnd
    \/ ResetCall
    \/ TimerFire
    \/ AnimationFrame
    \/ Tick
    \/ Scroll

Spec == Init /\ [][Next]_vars

\* the timer facility and the frame scheduler do their work

(***************************************************************************)
(* The reset animation on its own.  It starts where a gesture has been     *)
(* committed: after new Zoom(elem, config, wnd) with requestAnimationFrame *)
(* present, a touch-start with the two contacts s, a touch-move with the   *)
(* two contacts d and a touch-end.  From there reset() is called and no    *)
(* touch event arrives.  The browser runs a requested frame callback and   *)
(* lets time pass: weak fairness of AnimationFrame and of Tick.            *)
(***************************************************************************)
\* the fields of a new Zoom (constructor, lines 293-312)
Me0 ==
    [activeZoom |-> identity, resultantZoom |-> identity, inZoom |-> FALSE,
     elemScrollTop |-> 0, dataScrollTop |-> NaN,
     styleTransform |-> [kind |-> "unset", m |-> NoMatrix], styleOverflow |-> "unset",
     rafQueue |-> <<>>]

\* the engine after the touch-move and the touch-end of a gesture from s to d
Gesture(s, d, rot) ==
    finalize(previewZoom(Me0, zoom(getCoords(s), getCoords(d), rot, FALSE)))

GestureStarts == { << <<1, 1>>, <<2, 1>> >>, << <<1, 1>>, <<1, 1>> >> }

GestureMoves ==
    {<<p, q>> : p \in (0..MaxCoord) \X (0..MaxCoord), q \in (0..MaxCoord) \X (0..MaxCoord)}

\* the fields of the engine are those of me
Holds(me) ==
    /\ activeZoom = me.activeZoom
    /\ resultantZoom = me.resultantZoom
    /\ inZoom = me.inZoom
    /\ elemScrollTop = me.elemScrollTop
    /\ dataScrollTop = me.dataScrollTop
    /\ styleTransform = me.styleTransform
    /\ styleOverflow = me.styleOverflow
    /\ rafQueue = me.rafQueue

InitAnim ==
    /\ config \in Configs
    /\ hasRAF = TRUE
    /\ geom \in Geoms
    /\ zooming = FALSE
    /\ tapped = FALSE
    /\ timers = <<>>
    /\ now \in {0, FrameMs}
    /\ lastFrame = -1
    /\ nMoves = 1
    /\ extra = 0
    /\ evt = [prevented |-> TRUE, reset |-> FALSE, tap |-> FALSE]
    /\ solveIn = NoSolve
    /\ solveOut = NoSolve
    /\ \E s \in GestureStarts, d \in GestureMoves :
          /\ srcCoords = getCoords(s)
          /\ Holds(Gesture(s, d, config.rotate))

NextAnim ==
    \/ ResetCall
    \/ AnimationFrame
    \/ Tick

\* the guards of AnimationFrame and of Tick: the states where each can step
AnimationFrameEnabled == rafQueue # <<>> /\ now > lastFrame

TickEnabled ==
    /\ timers # <<>> \/ rafQueue # <<>>
    /\ timers # <<>> => Head(timers) > 0
    /\ rafQueue # <<>> => lastFrame = now

\* WF_vars(AnimationFrame) /\ WF_vars(Tick), with ENABLED written out as the
\* guards above
FairSpec ==
    /\ InitAnim /\ [][NextAnim]_vars
    /\ []<>(~AnimationFrameEnabled) \/ []<><<AnimationFrame>>_vars
    /\ []<>(~TickEnabled) \/ []<><<Tick>>_vars

(***************************************************************************)
(* The solver on its own: zoom() applied to every pair of point pairs with *)
(* coordinates in 0..MaxCoord.                                             *)
(***************************************************************************)
SolvePoints == {<<N(x), N(y)>> : x \in 0..MaxCoord, y \in 0..MaxCoord}

SolvePairs == {<<p, q>> : p \in SolvePoints, q \in SolvePoints}

InitSolve ==
    /\ zooming = FALSE
    /\ activeZoom = identity
    /\ resultantZoom = identity
    /\ srcCoords = <<NoPoint, NoPoint>>
    /\ inZoom = FALSE
    /\ tapped = FALSE
    /\ config = [pan |-> FALSE, rotate |-> TRUE]
    /\ hasRAF = FALSE
    /\ timers = <<>>
    /\ rafQueue = <<>>
    /\ now = 0
    /\ lastFrame = -1
    /\ elemScrollTop = 0
    /\ dataScrollTop = NaN
    /\ geom \in Geoms
    /\ styleTransform = [kind |-> "unset", m |-> NoMatrix]
    /\ styleOverflow = "unset"
    /\ nMoves = 0
    /\ extra = 0
    /\ evt = NoEvent
    /\ solveIn \in [s : SolvePairs, d : SolvePairs, rotate : BOOLEAN]
    /\ solveOut = NoSolve

Solve ==
    /\ solveOut = NoSolve
    /\ solveOut' = zoom(solveIn.s, solveIn.d, solveIn.rotate, FALSE)
    /\ UNCHANGED <<zooming, inZoom, tapped, activeZoom, resultantZoom, srcCoords, config,
                   hasRAF, timers, rafQueue, now, lastFrame, elemScrollTop, dataScrollTop,
                   geom, styleTransform, styleOverflow, nMoves, extra, evt, solveIn>>

NextSolve == Solve

SolverSpec == InitSolve /\ [][NextSolve]_vars

(***************************************************************************)
(* Transform.prototype.css run on its own (lines 100-138)                  *)
(***************************************************************************)
\* the layout of Geoms, where the screen is shorter than the list, and one
\* where it is higher (lines 112-120)
RenderGeoms ==
    Geoms \cup
    { [offsetLeft |-> 1, offsetTop |-> 1, clientWidth |-> 4, scrollHeight |-> 2, screenHeight |-> 4] }

\* the receivers of css: scalings below, at and above 1, with and without a
\* quarter turn, translations inside and outside the pan borders
RenderTransforms ==
    { Transform(<<<<a, s>>, <<Neg(s), d>>>>, <<x, y>>, el) :
        a \in {<<1, 2>>, One, N(2)}, d \in {<<1, 2>>, One, N(2)}, s \in {Zero, One},
        x \in {N(-9), N(-1), Zero, One, N(3)}, y \in {N(-9), N(-1), Zero, One, N(3)},
        el \in BOOLEAN }

\* elem.scrollTop, parseInt(elem.dataset.scrollTop) (NaN until repaint saves a
\* scroll offset) and the layout
RenderEnvs == [scrollTop : ScrollTops, data : {NaN, N(2)}, g : RenderGeoms]

InitRender ==
    /\ zooming = FALSE
    /\ activeZoom = identity
    /\ resultantZoom = identity
    /\ srcCoords = <<NoPoint, NoPoint>>
    /\ inZoom = FALSE
    /\ tapped = FALSE
    /\ config = [pan |-> FALSE, rotate |-> TRUE]
    /\ hasRAF = FALSE
    /\ timers = <<>>
    /\ rafQueue = <<>>
    /\ now = 0
    /\ lastFrame = -1
    /\ elemScrollTop = 0
    /\ dataScrollTop = NaN
    /\ geom \in Geoms
    /\ styleTransform = [kind |-> "unset", m |-> NoMatrix]
    /\ styleOverflow = "unset"
    /\ nMoves = 0
    /\ extra = 0
    /\ evt = NoEvent
    /\ solveIn \in [T : RenderTransforms, e : RenderEnvs]
    /\ solveOut = NoSolve

Render ==
    /\ solveOut = NoSolve
    /\ solveOut' = css(solveIn.T, solveIn.e)
    /\ UNCHANGED <<zooming, inZoom, tapped, activeZoom, resultantZoom, srcCoords, config,
                   hasRAF, timers, rafQueue, now, lastFrame, elemScrollTop, dataScrollTop,
                   geom, styleTransform, styleOverflow, nMoves, extra, evt, solveIn>>

NextRender == Render

RenderSpec == InitRender /\ [][NextRender]_vars

(***************************************************************************)
(* Properties                                                              *)
(***************************************************************************)
\* T and U are the same affine map
SameMap(T, U) == T.A = U.A /\ T.b = U.b

\* every entry of T is a finite number
FiniteTransform(T) ==
    /\ \A i \in 1..2, j \in 1..2 : IsFinite(T.A[i][j])
    /\ \A i \in 1..2 : IsFinite(T.b[i])

\* the batches with exactly one contact
Singles == {t \in Batches : t.present /\ Len(t.list) = 1}

\* the two points of the pair coincide
Degenerate(pair) == pair[1] = pair[2]

\* C1: after a touch-move handled during a session, resultantZoom is
\* cascade(zoom(srcCoords, coordinates of the batch, config.rotate), activeZoom).
C1_ResultantIsCascade ==
    [][\A t \in Batches :
          (t.present /\ zooming /\ TouchMove(t)) =>
              SameMap(resultantZoom',
                      cascade(zoom(srcCoords, getCoords(t.list), config.rotate, FALSE),
                              activeZoom, TRUE))]_vars

\* C2: a touch-end during a session clears zooming and commits resultantZoom
\* into activeZoom; a touch-end with neither zooming nor inZoom changes nothing.
C2_TouchEndCommits ==
    [][TouchEnd =>
          /\ zooming => (~zooming' /\ activeZoom' = resultantZoom /\ resultantZoom' = resultantZoom)
          /\ (~zooming /\ ~inZoom) =>
                UNCHANGED <<zooming, inZoom, tapped, activeZoom, resultantZoom, srcCoords,
                            timers, rafQueue, elemScrollTop, dataScrollTop, styleTransform,
                            styleOverflow>>]_vars

\* a session has just been ended by a touch-end that committed a transform
\* other than the identity
C2_Witness ==
    /\ evt = [prevented |-> TRUE, reset |-> FALSE, tap |-> FALSE]
    /\ ~zooming /\ ~tapped
    /\ activeZoom = resultantZoom
    /\ ~SameMap(activeZoom, identity)

\* C3: a touch-start with one contact that directly follows a touch-start
\* with one contact (no time in between) triggers Reset and clears tapped,
\* whatever the engine state.
C3_SecondTapResets ==
    [][\A t \in Singles : (evt.tap /\ TouchStart(t)) => (evt'.reset /\ ~tapped')]_vars

\* C3, amended: while zooming or inZoom holds and a tap is pending, a
\* touch-start with one contact triggers Reset and clears tapped; Reset makes
\* activeZoom the identity at once without requestAnimationFrame, and queues
\* a step callback with it, whose last frame makes activeZoom the identity.
C3_PendingTapResets ==
    [][/\ \A t \in Singles :
             ((zooming \/ inZoom) /\ tapped /\ TouchStart(t)) =>
                 /\ evt'.reset /\ ~tapped'
                 /\ ~hasRAF => activeZoom' = identity
                 /\ hasRAF => rafQueue' = Append(rafQueue, [Z |-> activeZoom, startTime |-> NullTime, first |-> NullTime])
       /\ (AnimationFrame /\ rafQueue' = <<>>) => activeZoom' = identity]_vars

\* a double-tap on a transformed surface has just reset it without animation
C3_Witness ==
    /\ evt = [prevented |-> TRUE, reset |-> TRUE, tap |-> TRUE]
    /\ ~hasRAF /\ ~tapped
    /\ nMoves > 0
    /\ activeZoom = identity
    /\ styleTransform = StyleNone

\* C4: a touch-start with one contact triggers Reset only while the timeout of
\* an earlier one-contact touch-start is pending, that is, at most TapTimeout
\* ms after it: tapped implies a pending timeout with 0..TapTimeout ms left;
\* with no timeout pending a one-contact touch-start does not reset, and with
\* pan = false it does not change zooming.
C4_NoResetAfterTimeout ==
    [][/\ tapped' => (timers' # <<>> /\ \A i \in DOMAIN timers' : timers'[i] \in 0..TapTimeout)
       /\ \A t \in Singles :
             (timers = <<>> /\ TouchStart(t)) =>
                 /\ ~evt'.reset
                 /\ ~config.pan => zooming' = zooming]_vars

\* on a transformed surface, with pan = false and no timeout pending, a
\* one-contact touch-start has been taken as a first tap: no reset, no session
C4_Witness ==
    /\ evt = [prevented |-> TRUE, reset |-> FALSE, tap |-> TRUE]
    /\ ~config.pan /\ ~zooming /\ inZoom
    /\ tapped
    /\ timers = <<TapTimeout>>
    /\ ~SameMap(activeZoom, identity)

\* C5: without requestAnimationFrame, when reset() has returned activeZoom and
\* resultantZoom are the identity, the surface is in scroll mode and no frame
\* callback is pending.
C5_ResetWithoutScheduler ==
    (evt.reset /\ ~hasRAF) =>
        /\ activeZoom = identity
        /\ resultantZoom = identity
        /\ ~inZoom
        /\ styleTransform = StyleNone
        /\ styleOverflow = "scroll"
        /\ rafQueue = <<>>

\* reset() has just returned, without requestAnimationFrame, after a
\* touch-move changed the transform
C5_Witness ==
    /\ evt.reset /\ ~hasRAF
    /\ nMoves > 0
    /\ activeZoom = identity /\ resultantZoom = identity
    /\ styleOverflow = "scroll"

\* C6: with requestAnimationFrame, while step callbacks are pending and no
\* further reset() is called, a frame eventually commits the identity and
\* leaves no step callback pending.
C6_ResetTerminates ==
    (rafQueue # <<>>) ~>
        \/ rafQueue = <<>> /\ activeZoom = identity /\ resultantZoom = identity
        \/ evt.reset

\* the last frame of an animation that started from another transform has
\* committed the identity
C6_Witness ==
    /\ hasRAF /\ rafQueue = <<>>
    /\ nMoves > 0
    /\ lastFrame = -1
    /\ activeZoom = identity /\ resultantZoom = identity
    /\ styleOverflow = "scroll"

\* C7: whatever is rendered has both diagonal entries >= 1: the matrix written
\* to elem.style.transform has m[0] >= 1 and m[3] >= 1.
C7_ScaleFloor ==
    styleTransform.kind = "matrix" =>
        (Ge(styleTransform.m[1], One) /\ Ge(styleTransform.m[4], One))

\* C8: zoom(s, d, true) maps s[0] to d[0] and s[1] to d[1] when s[0] # s[1].
C8_SimilarityRoundTrip ==
    (solveOut # NoSolve /\ solveIn.rotate /\ ~Degenerate(solveIn.s)) =>
        /\ Image(solveOut, solveIn.s[1]) = solveIn.d[1]
        /\ Image(solveOut, solveIn.s[2]) = solveIn.d[2]

\* the solver has produced a rotation with scaling and translation
C8_Witness ==
    /\ solveOut # NoSolve /\ solveIn.rotate /\ ~Degenerate(solveIn.s)
    /\ solveOut.A[1][2] # Zero
    /\ solveOut.A[1][1] \notin {Zero, One}
    /\ solveOut.b # <<Zero, Zero>>

\* the page point of a one-contact batch, relative to the origin of the surface
Relative(t) == <<N(t.list[1][1] - geom.offsetLeft), N(t.list[1][2] - geom.offsetTop)>>

\* what a first tap does: tapped, a timeout of TapTimeout ms, and with pan a
\* session whose srcCoords are (p, p + (1,1))
FirstTap(t) ==
    /\ tapped'
    /\ timers' = Append(timers, TapTimeout)
    /\ config.pan =>
          /\ zooming'
          /\ srcCoords' = <<Relative(t), vcadd(Relative(t), <<One, One>>)>>

\* C9: in any engine state a touch-start with one contact and no tap pending
\* sets tapped, starts the timeout, and with pan starts a session.
C9_FirstTapAnyState ==
    [][\A t \in Singles : (~tapped /\ TouchStart(t)) => FirstTap(t)]_vars

\* C9, amended: the same while zooming or inZoom holds; otherwise the
\* touch-start changes nothing.
C9_FirstTapInZoom ==
    [][\A t \in Singles :
          (~tapped /\ TouchStart(t)) =>
              /\ (zooming \/ inZoom) => FirstTap(t)
              /\ ~(zooming \/ inZoom) => UNCHANGED <<tapped, timers, zooming, srcCoords>>]_vars

\* with pan, a first tap on a transformed surface has started a session
C9_Witness ==
    /\ evt = [prevented |-> TRUE, reset |-> FALSE, tap |-> TRUE]
    /\ config.pan /\ tapped /\ zooming /\ inZoom
    /\ timers = <<TapTimeout>>
    /\ srcCoords = << <<Zero, Zero>>, <<One, One>> >>

\* C10: a touch-move of a session whose srcCoords coincide leaves both
\* transforms alone, and the transforms never hold a non-finite number.
C10_DegenerateSkipped ==
    [][/\ \A t \in Batches :
             (t.present /\ zooming /\ Degenerate(srcCoords) /\ TouchMove(t)) =>
                 UNCHANGED <<resultantZoom, activeZoom>>
       /\ FiniteTransform(resultantZoom') /\ FiniteTransform(activeZoom')]_vars

\* C11: while a session is active activeZoom keeps its value: no step with
\* zooming before and after it changes activeZoom.
C11_ActiveFixedInSession ==
    [][(zooming /\ zooming') => activeZoom' = activeZoom]_vars

\* the progress step computes for the closure c in a frame with timestamp time
\* (lines 453-456)
Progress(c, time) ==
    Div(N(time - (IF Falsy(c.startTime) THEN time ELSE c.startTime)), N(ResetDuration))

\* C12: a reset has no cancellation: an animation frame, in a session or not,
\* runs every pending step callback; it leaves zooming alone and overwrites
\* activeZoom and resultantZoom with what the last callback commits, the
\* identity if its progress is >= 1 and the interpolated transform otherwise;
\* exactly the callbacks with progress < 1 are requested again.
C12_StaleFramesCommit ==
    [][AnimationFrame =>
          LET c == rafQueue[Len(rafQueue)]
              p == Progress(c, now)
          IN  /\ zooming' = zooming
              /\ activeZoom' = resultantZoom'
              /\ Ge(p, One) => activeZoom' = identity
              /\ ~Ge(p, One) => SameMap(activeZoom', avg(c.Z, identity, p))
              /\ Len(rafQueue') =
                    Cardinality({i \in DOMAIN rafQueue : ~Ge(Progress(rafQueue[i], now), One)})]_vars

\* in a session, a frame of a reset of a transformed surface has just committed
\* an interpolated transform and requested the next frame
C12_Witness ==
    /\ zooming /\ evt = NoEvent
    /\ rafQueue # <<>> /\ lastFrame = now
    /\ rafQueue[1].startTime # NullTime /\ rafQueue[1].startTime < now
    /\ ~SameMap(rafQueue[1].Z, identity)
    /\ activeZoom = resultantZoom
    /\ SameMap(activeZoom, avg(rafQueue[1].Z, identity, Progress(rafQueue[1], now)))
    /\ ~SameMap(activeZoom, identity)

\* the scroll offset of a rendering: elem.scrollTop, or the saved one when the
\* element reads 0, or 0 when none was saved
ScrollOffset(e) ==
    IF e.scrollTop > 0 THEN N(e.scrollTop) ELSE IF e.data = NaN THEN Zero ELSE e.data

\* C13: after rendering a transform with a boundary context its translation is
\* within the pan borders: -dx <= x <= 0 and -dy <= y <= scrollTop*scaleX, with
\* scaleX the floored A[0][0], dx = contentWidth*scaleX - contentWidth, and
\* dy = contentHeight*scaleX - viewportHeight - scrollTop*scaleX when the
\* viewport is not higher than the content, |viewportHeight -
\* contentHeight*scaleX| otherwise; and the borders do not cross.
C13_PanClamp ==
    (solveOut # NoSolve /\ solveIn.T.elem) =>
        LET e      == solveIn.e
            scaleX == solveOut.self.A[1][1]
            top    == Mul(ScrollOffset(e), scaleX)
            dx     == Sub(Mul(N(e.g.clientWidth), scaleX), N(e.g.clientWidth))
            dy     == IF e.g.screenHeight <= e.g.scrollHeight
                      THEN Sub(Sub(Mul(N(e.g.scrollHeight), scaleX), N(e.g.screenHeight)), top)
                      ELSE Abs(Sub(N(e.g.screenHeight), Mul(N(e.g.scrollHeight), scaleX)))
            x      == solveOut.self.b[1]
            y      == solveOut.self.b[2]
        IN  /\ Ge(scaleX, One)
            /\ Le(Neg(dx), Zero) /\ Le(Neg(dy), top)
            /\ Le(Neg(dx), x) /\ Le(x, Zero)
            /\ Le(Neg(dy), y) /\ Le(y, top)

\* the same with a scroll offset at hand (elem.scrollTop > 0 or one saved):
\* the part of C13 the code keeps
C13_PanClampWithOffset ==
    (solveOut # NoSolve /\ solveIn.T.elem /\ (solveIn.e.scrollTop > 0 \/ solveIn.e.data # NaN))
        => C13_PanClamp

\* C16: producing a render descriptor from a Transform leaves its matrix A and
\* its translation b as they were.
C16_RenderKeepsTransform ==
    solveOut # NoSolve => SameMap(solveOut.self, solveIn.T)

\* C14: a transform with no boundary context is rendered as a descriptor: the
\* interpolated transform an animation frame commits with progress < 1, when it
\* still scales, is on the element as a matrix.
C14_InterpolatedIsDescriptor ==
    [][(AnimationFrame /\ rafQueue' # <<>>
           /\ FiniteTransform(activeZoom') /\ ~SameMap(activeZoom', identity))
          => styleTransform'.kind = "matrix"]_vars

\* the touch batches with three or more contacts
ManyContacts == {t \in Batches : Len(t.list) >= 3}

\* C15: a touch batch with three or more contacts is never claimed: in every
\* state a touch-start or touch-move carrying one leaves zooming, srcCoords,
\* activeZoom and resultantZoom unchanged and does not prevent the default.
C15_ManyContactsNotClaimed ==
    [][(\E t \in ManyContacts : TouchStart(t) \/ TouchMove(t)) =>
          /\ zooming' = zooming
          /\ srcCoords' = srcCoords
          /\ activeZoom' = activeZoom
          /\ resultantZoom' = resultantZoom
          /\ ~evt'.prevented]_vars

\* C17: a pending tap stays pending until 300ms have passed since the
\* touch-start that marked it, whose timeout is the youngest one, or a
\* single-contact touch-start consumes it: no older timeout clears the flag.
C17_PendingTapLasts ==
    [][(tapped /\ ~tapped') => (evt'.tap \/ timers[Len(timers)] <= 0)]_vars

\* C18: whenever no session is active, activeZoom equals resultantZoom.
C18_IdleActiveIsResultant ==
    ~zooming => activeZoom = resultantZoom

\* a touch-end has just ended a session whose touch-moves changed the
\* transform, and both hold the transformed value
C18_Witness ==
    /\ ~zooming /\ evt.prevented /\ ~evt.tap /\ ~evt.reset
    /\ nMoves > 0
    /\ activeZoom = resultantZoom
    /\ FiniteTransform(activeZoom)
    /\ ~SameMap(activeZoom, identity)

\* C19: whenever no session is active, no reset frame is pending and inZoom
\* is false, activeZoom is the identity (stated for the transforms with
\* finite entries).
C19_ScrollModeIsIdentity ==
    (~zooming /\ rafQueue = <<>> /\ ~inZoom /\ FiniteTransform(activeZoom))
        => SameMap(activeZoom, identity)

\* C20: an animated reset lasts at most 100ms of frame time: a frame whose
\* timestamp is at least 100ms later than the timestamp of a reset's first
\* frame commits the identity for it and requests no further frame for it.
C20_ResetWithin100ms ==
    [][AnimationFrame =>
          /\ \A j \in DOMAIN rafQueue' : now - rafQueue'[j].first < ResetDuration
          /\ LET c == rafQueue[Len(rafQueue)]
             IN  (c.first # NullTime /\ now - c.first >= ResetDuration)
                    => activeZoom' = identity]_vars

====
